---- MODULE Spec2Model ----
(***************************************************************************)
(* desktop-dictate: the streaming transcription pipeline.                  *)
(*   audio/mod.rs   start_audio_capture: capture thread, capture callback, *)
(*                  bounded frame queue, forced stop and join              *)
(*   soniox/mod.rs  connect_and_transcribe: connection, outbound writer    *)
(*                  task, event loop, token diffing, insertion worker      *)
(*   lib.rs         stop_recording: the user's stop request                *)
(* Text is a sequence of one-character strings.                            *)
(***************************************************************************)
EXTENDS Naturals, Sequences, FiniteSets, TLC

(***************************************************************************)
(* Bounds of the model.                                                    *)
(***************************************************************************)
\* frames the capture callback produces in one session
MaxFrames == 2
\* capacity of the frame queue (mpsc::channel(100) in the source, scaled)
AudioQueueCap == 1
\* inbound messages the server delivers in one session
MaxInbound == 1
\* inbound responses in the token-diffing specification
MaxResponses == 2
MaxSessions == 2
MaxCalls == 3

(***************************************************************************)
(* Text helpers.                                                           *)
(***************************************************************************)
StartsWith(s, p) == Len(p) <= Len(s) /\ SubSeq(s, 1, Len(p)) = p

Suffix(s, n) == SubSeq(s, n + 1, Len(s))

IsWhitespace(c) == c = " "

RECURSIVE TrimStart(_)
TrimStart(s) ==
    IF s # <<>> /\ IsWhitespace(Head(s)) THEN TrimStart(Tail(s)) ELSE s

RECURSIVE TrimEnd(_)
TrimEnd(s) ==
    IF s # <<>> /\ IsWhitespace(s[Len(s)])
    THEN TrimEnd(SubSeq(s, 1, Len(s) - 1))
    ELSE s

Trim(s) == TrimEnd(TrimStart(s))

\* is_control_token without the trim: a marker padded with blanks passes
is_control_token_notrim(text) ==
    text # <<>> /\ Head(text) = "<" /\ text[Len(text)] = ">"

\* fn is_control_token(text: &str) -> bool
is_control_token(text) ==
    LET trimmed == Trim(text)
    IN  trimmed # <<>> /\ Head(trimmed) = "<" /\ trimmed[Len(trimmed)] = ">"

\* the for loop over response.tokens: keep a token when its text is neither
\* empty nor a control token; push it to final_tokens or non_final_tokens
RECURSIVE PartitionTokens(_, _, _)
PartitionTokens(tokens, final_tokens, non_final_tokens) ==
    IF tokens = <<>>
    THEN [final_tokens |-> final_tokens, non_final_tokens |-> non_final_tokens]
    ELSE LET token == Head(tokens)
         IN  IF token.text # <<>> /\ ~is_control_token(token.text)
             THEN IF token.is_final
                  THEN PartitionTokens(Tail(tokens),
                                       Append(final_tokens, token),
                                       non_final_tokens)
                  ELSE PartitionTokens(Tail(tokens),
                                       final_tokens,
                                       Append(non_final_tokens, token))
             ELSE PartitionTokens(Tail(tokens), final_tokens, non_final_tokens)

\* tokens.iter().map(|t| t.text.clone()).collect::<String>()
RECURSIVE CollectText(_)
CollectText(tokens) ==
    IF tokens = <<>> THEN <<>>
    ELSE Head(tokens).text \o CollectText(Tail(tokens))

\* text_to_type that appends instead of slicing off the typed prefix
text_to_type_noslice(current_final_text, typed) ==
    current_final_text

\* let text_to_type = if current_final_text.starts_with(&typed_text) {..}
text_to_type(current_final_text, typed) ==
    IF StartsWith(current_final_text, typed)
    THEN Suffix(current_final_text, Len(typed))
    ELSE IF typed = <<>>
         THEN current_final_text
         ELSE current_final_text

\* tracking that appends the delta to the old text instead of replacing it
TypedTextAfterTyping_append(current_final_text, typed, delta) ==
    typed \o delta

\* typed_text = current_final_text.clone(), inside `if !text_to_type.is_empty()`
TypedTextAfterTyping(current_final_text, typed, delta) ==
    current_final_text

\* preview with the tentative text put before the final text
preview_text_swapped(current_final_text, preview_non_final) ==
    preview_non_final \o current_final_text

\* format!("{}{}", current_final_text, preview_non_final)
preview_text(current_final_text, preview_non_final) ==
    current_final_text \o preview_non_final

\* insertion and transcribed-text event even for an empty delta
ShouldType_always(delta) == TRUE

\* if !text_to_type.is_empty()
ShouldType(delta) == delta # <<>>

\* if !preview_text.is_empty()
ShouldEmitPreview(preview) == preview # <<>>

(***************************************************************************)
(* Inputs: tokens, responses, outbound messages.                           *)
(***************************************************************************)
Token(text, is_final) == [text |-> text, is_final |-> is_final]

TextA == <<"a">>
TextB == <<"b">>
TextEnd == <<"<", "e", ">">>
TextPaddedEnd == <<" ", "<", "e", ">", " ">>
TextLt == <<"<">>
TextGt == <<">">>

\* SonioxResponse that parsed and carries no error_code; `tokens: None` is
\* the empty list (the partition loop is skipped either way), and `finished`
\* is TRUE for Some(true) alone
Response(tokens, finished) ==
    [kind |-> "response", tokens |-> tokens, finished |-> finished]

\* the token lists of the token-diffing specification
DiffTokenLists ==
    { <<>>,
      <<Token(TextA, TRUE)>>,
      <<Token(TextA, TRUE), Token(TextB, TRUE)>>,
      <<Token(TextB, TRUE)>>,
      <<Token(TextB, FALSE)>>,
      <<Token(TextA, TRUE), Token(TextB, FALSE)>>,
      <<Token(TextB, FALSE), Token(TextA, TRUE)>>,
      <<Token(TextEnd, TRUE)>>,
      <<Token(TextA, TRUE), Token(TextEnd, TRUE)>>,
      <<Token(TextEnd, FALSE), Token(TextB, FALSE)>>,
      <<Token(TextPaddedEnd, TRUE), Token(TextB, TRUE)>>,
      <<Token(TextLt, TRUE), Token(TextGt, TRUE)>>,
      <<Token(<<>>, TRUE), Token(TextA, TRUE)>> }

DiffResponses ==
    { Response(t, FALSE) : t \in DiffTokenLists }
        \cup { Response(<<Token(TextA, TRUE)>>, TRUE) }

\* the responses of the session specification
SessionResponses ==
    { Response(<<Token(TextA, TRUE)>>, FALSE),
      Response(<<>>, TRUE) }

\* Message::Text(config_json), Message::Binary(audio_data), Message::Text("")
ConfigMsg == [kind |-> "config", frame |-> 0]
BinaryMsg(frame) == [kind |-> "binary", frame |-> frame]
EndMarker == [kind |-> "end", frame |-> 0]

Event(name, payload) == [name |-> name, payload |-> payload]

\* app.emit("recording-started" / "recording-stopped" / "recording-error").
\* The history notes the recording task each event belongs to: the task
\* itself, or for a user's stop the newest task (0: nothing is recording)
AppEvent(name, s) == [name |-> name, session |-> s]

\* the two transcription-error payloads: format!("{} - {}", error_code,
\* error_msg) for an error record, e.to_string() for a transport error
ServerErrorText == <<"error_code - error_message">>
TransportErrorText == <<"e.to_string()">>

(***************************************************************************)
(* State.                                                                  *)
(***************************************************************************)
\* the recording tasks toggle_recording can spawn, and the two places that
\* call it: the global hotkey's spawned task and the start_recording command
Sessions == 1..MaxSessions
Callers == {"hotkey", "button"}

VARIABLES
    stop_signal,          \* AppState.stop_signal, shared AtomicBool
    pc,                   \* position of the task running start_audio_capture
    result,               \* what start_audio_capture returns
    thread_pc,            \* position of the capture thread
    thread_result,        \* the capture thread's return value
    cb_pc,                \* capture callback: idle, or blocked in blocking_send
    frames_made,          \* frames the callback has produced; the newest is its id
    audio_chan,           \* mpsc::channel::<Vec<u8>>(100): tx -> rx
    ws_chan,              \* mpsc::unbounded_channel::<Message>(): ws_tx -> ws_rx
    ws_out,               \* messages ws_write has written to the connection
    writer_pc,            \* the spawned writer task
    ws_log,               \* history: every ws_tx.send call, with its outcome
    is_transcribing,
    should_stop,          \* the stop signal as last loaded at the loop head
    audio_channel_closed,
    end_signal_sent,
    session_finished,
    finish_timeout,       \* the pinned sleep: long, armed (5 s), elapsed, fired
    timer_arms,           \* history: number of finish_timeout.reset calls
    inbound_n,            \* inbound messages delivered so far
    typed_text,
    accumulated_text,
    hist,                 \* history: one record per processed response
    typing_chan,          \* unbounded_channel::<String>(): typing_tx -> typing_rx
    worker_pc,            \* the spawned typing worker
    in_flight,            \* type_text calls running under spawn_blocking
    type_log,             \* history: completed type_text calls, with outcome
    events,               \* history: app.emit calls of the session
    is_recording,         \* AppState.is_recording
    call_pc,              \* toggle_recording calls in progress, per caller
    calls_made,           \* user calls so far
    n_spawned,            \* recording tasks spawned so far
    sess_pc,              \* each recording task: its protocol session
    sess_thread,          \* each recording task: its capture thread
    stop_asked,           \* history: tasks that were streaming at a user stop
    app_log               \* history: recording-started / recording-stopped

capVars == <<thread_pc, thread_result, cb_pc, frames_made>>
wsVars == <<ws_chan, ws_out, writer_pc, ws_log>>
loopVars == <<is_transcribing, should_stop, audio_channel_closed,
              end_signal_sent, session_finished, finish_timeout, timer_arms>>
diffVars == <<typed_text, accumulated_text, hist>>
workerVars == <<typing_chan, worker_pc, in_flight, type_log>>

appVars == <<is_recording, call_pc, calls_made, n_spawned, sess_pc,
             sess_thread, stop_asked, app_log>>

\* the state of the one session that is modelled in full
sessionVars == <<pc, result, capVars, audio_chan, wsVars, loopVars,
                 inbound_n, diffVars, workerVars, events>>

vars == <<stop_signal, sessionVars, appVars>>

Init ==
    /\ stop_signal = FALSE
    /\ pc = "start"
    /\ result = "none"
    /\ thread_pc = "none"
    /\ thread_result = "none"
    /\ cb_pc = "idle"
    /\ frames_made = 0
    /\ audio_chan = <<>>
    /\ ws_chan = <<>>
    /\ ws_out = <<>>
    /\ writer_pc = "none"
    /\ ws_log = <<>>
    /\ is_transcribing = FALSE
    /\ should_stop = FALSE
    /\ audio_channel_closed = FALSE
    /\ end_signal_sent = FALSE
    /\ session_finished = FALSE
    /\ finish_timeout = "long"
    /\ timer_arms = 0
    /\ inbound_n = 0
    /\ typed_text = <<>>
    /\ accumulated_text = <<>>
    /\ hist = <<>>
    /\ typing_chan = <<>>
    /\ worker_pc = "none"
    /\ in_flight = <<>>
    /\ type_log = <<>>
    /\ events = <<>>
    /\ is_recording = FALSE
    /\ call_pc = [c \in Callers |-> "idle"]
    /\ calls_made = 0
    /\ n_spawned = 0
    /\ sess_pc = [s \in Sessions |-> "none"]
    /\ sess_thread = [s \in Sessions |-> "none"]
    /\ stop_asked = {}
    /\ app_log = <<>>

(***************************************************************************)
(* lib.rs: the user's stop request.                                        *)
(***************************************************************************)
\* stop_recording / the stopping branch of toggle_recording:
\* state.stop_signal.store(true)
StopRecording ==
    /\ UNCHANGED appVars
    /\ pc # "returned"
    /\ ~stop_signal
    /\ stop_signal' = TRUE
    /\ UNCHANGED <<pc, result, capVars, audio_chan, wsVars, loopVars,
                   inbound_n, diffVars, workerVars, events>>

(***************************************************************************)
(* audio/mod.rs: start_audio_capture up to the spawn of the capture thread.*)
(***************************************************************************)
\* no default input device, or no default input config: return Err(err)
OpenDeviceFail ==
    /\ UNCHANGED appVars
    /\ pc = "start"
    /\ pc' = "returned"
    /\ result' = "err_device"
    /\ UNCHANGED <<stop_signal, capVars, audio_chan, wsVars, loopVars,
                   inbound_n, diffVars, workerVars, events>>

\* device and config found: std::thread::spawn, then connect_and_transcribe
SpawnCapture ==
    /\ UNCHANGED appVars
    /\ pc = "start"
    /\ pc' = "connect"
    /\ thread_pc' = "build"
    /\ UNCHANGED <<stop_signal, result, thread_result, cb_pc, frames_made,
                   audio_chan, wsVars, loopVars, inbound_n, diffVars,
                   workerVars, events>>

(***************************************************************************)
(* audio/mod.rs: the capture thread and the capture callback.              *)
(***************************************************************************)
\* device.build_input_stream(..) returned Ok(stream)
BuildStreamOk ==
    /\ UNCHANGED appVars
    /\ thread_pc = "build"
    /\ thread_pc' = "play"
    /\ UNCHANGED <<stop_signal, pc, result, thread_result, cb_pc, frames_made,
                   audio_chan, wsVars, loopVars, inbound_n, diffVars,
                   workerVars, events>>

\* unsupported sample format or build_input_stream error: the thread returns
\* Err and its tx is dropped
BuildStreamFail ==
    /\ UNCHANGED appVars
    /\ thread_pc = "build"
    /\ thread_pc' = "exited"
    /\ thread_result' = "err_build"
    /\ UNCHANGED <<stop_signal, pc, result, cb_pc, frames_made, audio_chan,
                   wsVars, loopVars, inbound_n, diffVars, workerVars, events>>

\* stream.play() returned Ok
PlayOk ==
    /\ UNCHANGED appVars
    /\ thread_pc = "play"
    /\ thread_pc' = "running"
    /\ UNCHANGED <<stop_signal, pc, result, thread_result, cb_pc, frames_made,
                   audio_chan, wsVars, loopVars, inbound_n, diffVars,
                   workerVars, events>>

\* stream.play() returned Err: the thread returns Err, stream and tx dropped
PlayFail ==
    /\ UNCHANGED appVars
    /\ thread_pc = "play"
    /\ thread_pc' = "exited"
    /\ thread_result' = "err_play"
    /\ UNCHANGED <<stop_signal, pc, result, cb_pc, frames_made, audio_chan,
                   wsVars, loopVars, inbound_n, diffVars, workerVars, events>>

\* a thread that leaves its poll loop whatever it read
ThreadLeavesPoll_always(stop_read) == TRUE

\* while !stop_flag_for_thread.load(Ordering::SeqCst)
ThreadLeavesPoll(stop_read) == stop_read

\* while !stop_flag_for_thread.load() { sleep(100 ms) }: the loop is left
PollStop ==
    /\ UNCHANGED appVars
    /\ thread_pc = "running"
    /\ ThreadLeavesPoll(stop_signal)
    /\ thread_pc' = "dropping"
    /\ UNCHANGED <<stop_signal, pc, result, thread_result, cb_pc, frames_made,
                   audio_chan, wsVars, loopVars, inbound_n, diffVars,
                   workerVars, events>>

\* drop(stream); Ok(()): the callback closure (and its tx_clone) is destroyed
\* only when no invocation of it is running; then the thread's tx goes too
DropStream ==
    /\ UNCHANGED appVars
    /\ thread_pc = "dropping"
    /\ cb_pc = "idle"
    /\ thread_pc' = "exited"
    /\ thread_result' = "ok"
    /\ UNCHANGED <<stop_signal, pc, result, cb_pc, frames_made, audio_chan,
                   wsVars, loopVars, inbound_n, diffVars, workerVars, events>>

\* a callback that converts and pushes whatever the stop signal says
CallbackProceeds_always(stop_read) == TRUE

\* if stop.load(Ordering::SeqCst) { return; }
CallbackProceeds(stop_read) == ~stop_read

\* data_callback: stop.load() read false, the batch converted to a non-empty
\* pcm_data (an invocation that reads true returns and changes nothing)
CallbackInvoke ==
    /\ UNCHANGED appVars
    /\ thread_pc \in {"running", "dropping"}
    /\ cb_pc = "idle"
    /\ CallbackProceeds(stop_signal)
    /\ frames_made < MaxFrames
    /\ cb_pc' = "send"
    /\ frames_made' = frames_made + 1
    /\ UNCHANGED <<stop_signal, pc, result, thread_pc, thread_result,
                   audio_chan, wsVars, loopVars, inbound_n, diffVars,
                   workerVars, events>>

\* a push that never waits for space
AudioSendReady_unbounded(queue) == TRUE

\* mpsc::channel(100): blocking_send goes through when the queue has room
AudioSendReady(queue) == Len(queue) < AudioQueueCap

\* tx_clone.blocking_send(pcm_data).ok(): waits while the queue is full
\* (rx lives until start_audio_capture returns, after the thread was joined)
CallbackSend ==
    /\ UNCHANGED appVars
    /\ cb_pc = "send"
    /\ AudioSendReady(audio_chan)
    /\ audio_chan' = Append(audio_chan, frames_made)
    /\ cb_pc' = "idle"
    /\ UNCHANGED <<stop_signal, pc, result, thread_pc, thread_result,
                   frames_made, wsVars, loopVars, inbound_n, diffVars,
                   workerVars, events>>

\* every Sender of the frame queue has been dropped
AudioSendersDropped == thread_pc = "exited"

(***************************************************************************)
(* soniox/mod.rs: connection, writer task.                                 *)
(***************************************************************************)
\* a session that tries to connect again after a failure
AfterConnectFail_retry == "connect"

\* `?` at line 76: connect_and_transcribe returns, start_audio_capture goes
\* on at its line 159
AfterConnectFail == "force_stop"

\* connect_async failed: `?` returns the error to start_audio_capture
ConnectFail ==
    /\ UNCHANGED appVars
    /\ pc = "connect"
    /\ pc' = AfterConnectFail
    /\ result' = "err_connect"
    /\ UNCHANGED <<stop_signal, capVars, audio_chan, wsVars, loopVars,
                   inbound_n, diffVars, workerVars, events>>

\* a session that starts without queueing its configuration
InitialOutbound_none == <<>>

\* ws_tx.send(Message::Text(config_json)): the one send before the loop
InitialOutbound == <<ConfigMsg>>

\* connect_async succeeded: split, spawn the writer, queue the config, set the
\* loop's locals, spawn the typing worker, pin the 3600 s sleep
ConnectOk ==
    /\ UNCHANGED appVars
    /\ pc = "connect"
    /\ pc' = "loop_top"
    /\ writer_pc' = "running"
    /\ ws_chan' = InitialOutbound
    /\ ws_log' = [i \in 1..Len(InitialOutbound) |->
                      [msg |-> InitialOutbound[i], ok |-> TRUE]]
    /\ typed_text' = <<>>
    /\ is_transcribing' = TRUE
    /\ audio_channel_closed' = FALSE
    /\ end_signal_sent' = FALSE
    /\ session_finished' = FALSE
    /\ accumulated_text' = <<>>
    /\ worker_pc' = "recv"
    /\ finish_timeout' = "long"
    /\ UNCHANGED <<stop_signal, result, capVars, audio_chan, ws_out,
                   should_stop, timer_arms, inbound_n, hist, typing_chan,
                   in_flight, type_log, events>>

\* ws_tx and typing_tx are locals of connect_and_transcribe: dropped on return
SessionSendersDropped == pc \in {"force_stop", "join", "returned"}

\* a writer that takes the newest queued message first
NextToWrite_newest(queue) == queue[Len(queue)]

\* ws_rx.recv().await: the oldest queued message
NextToWrite(queue) == Head(queue)

\* writer task: ws_rx.recv() gave a message and ws_write.send(msg) succeeded
WriterSendOk ==
    /\ UNCHANGED appVars
    /\ writer_pc = "running"
    /\ ws_chan # <<>>
    /\ ws_out' = Append(ws_out, NextToWrite(ws_chan))
    /\ ws_chan' = Tail(ws_chan)
    /\ UNCHANGED <<stop_signal, pc, result, capVars, audio_chan, writer_pc,
                   ws_log, loopVars, inbound_n, diffVars, workerVars, events>>

\* writer task: ws_write.send(msg) failed: break, ws_rx is dropped with
\* whatever is still queued
WriterSendFail ==
    /\ UNCHANGED appVars
    /\ writer_pc = "running"
    /\ ws_chan # <<>>
    /\ writer_pc' = "failed"
    /\ ws_chan' = <<>>
    /\ UNCHANGED <<stop_signal, pc, result, capVars, audio_chan, ws_out,
                   ws_log, loopVars, inbound_n, diffVars, workerVars, events>>

\* writer task: ws_rx.recv() gave None (queue empty, ws_tx dropped)
WriterExit ==
    /\ UNCHANGED appVars
    /\ writer_pc = "running"
    /\ ws_chan = <<>>
    /\ SessionSendersDropped
    /\ writer_pc' = "exited"
    /\ UNCHANGED <<stop_signal, pc, result, capVars, audio_chan, ws_chan,
                   ws_out, ws_log, loopVars, inbound_n, diffVars, workerVars,
                   events>>

\* ws_tx.send(msg): queued while ws_rx is alive, Err once it was dropped
WsQueueAfterSend(msg) ==
    IF writer_pc = "running" THEN Append(ws_chan, msg) ELSE ws_chan

WsLogAfterSend(msg) ==
    Append(ws_log, [msg |-> msg, ok |-> writer_pc = "running"])

(***************************************************************************)
(* soniox/mod.rs: the event loop of connect_and_transcribe.                *)
(***************************************************************************)
\* the end marker queued on every iteration that sees the stop signal
StopTriggersEnd_nocheck(stop_seen, end_sent) == stop_seen

\* if should_stop && !end_signal_sent
StopTriggersEnd(stop_seen, end_sent) == stop_seen /\ ~end_sent

\* if !end_signal_sent, in the channel-closed arm
ClosedTriggersEnd(end_sent) == ~end_sent

\* the sleep left at its 3600 s deadline
TimerAfterReset_noreset == "long"

\* finish_timeout.as_mut().reset(Instant::now() + Duration::from_secs(5))
TimerAfterReset == "armed"

\* select! guard of the timeout branch: if end_signal_sent && !session_finished
TimeoutBranchOpen(end_sent, finished) == end_sent /\ ~finished

\* a loop head that also leaves when it has loaded the stop signal as true
LeavesLoopAtHead_onstop(finished, stop_seen) == finished \/ stop_seen

\* if session_finished { break; }: the only exit at the loop head besides
\* the `while is_transcribing` condition
LeavesLoopAtHead(finished, stop_seen) == finished

\* the head of `while is_transcribing`: load the stop signal, queue the end
\* marker and arm the timer once, leave the loop when the session is finished
LoopTop ==
    /\ UNCHANGED appVars
    /\ pc = "loop_top"
    /\ IF ~is_transcribing
       THEN /\ pc' = "after_loop"
            /\ UNCHANGED <<wsVars, loopVars>>
       ELSE LET send_end == StopTriggersEnd(stop_signal, end_signal_sent)
            IN  /\ should_stop' = stop_signal
                /\ ws_chan' = IF send_end THEN WsQueueAfterSend(EndMarker)
                                          ELSE ws_chan
                /\ ws_log' = IF send_end THEN WsLogAfterSend(EndMarker)
                                         ELSE ws_log
                /\ end_signal_sent' = IF send_end THEN TRUE ELSE end_signal_sent
                /\ finish_timeout' = IF send_end THEN TimerAfterReset
                                                 ELSE finish_timeout
                /\ timer_arms' = IF send_end THEN timer_arms + 1 ELSE timer_arms
                /\ pc' = IF LeavesLoopAtHead(session_finished, stop_signal)
                         THEN "after_loop" ELSE "select"
                /\ UNCHANGED <<ws_out, writer_pc, is_transcribing,
                               audio_channel_closed, session_finished>>
    /\ UNCHANGED <<stop_signal, result, capVars, audio_chan, inbound_n,
                   diffVars, workerVars, events>>

\* select!: audio_rx.recv() gave Some(audio_data) -> ws_tx.send(Binary)
SelectAudioFrame ==
    /\ UNCHANGED appVars
    /\ pc = "select"
    /\ ~audio_channel_closed
    /\ audio_chan # <<>>
    /\ audio_chan' = Tail(audio_chan)
    /\ ws_chan' = WsQueueAfterSend(BinaryMsg(Head(audio_chan)))
    /\ ws_log' = WsLogAfterSend(BinaryMsg(Head(audio_chan)))
    /\ pc' = "loop_top"
    /\ UNCHANGED <<stop_signal, result, capVars, ws_out, writer_pc, loopVars,
                   inbound_n, diffVars, workerVars, events>>

\* select!: audio_rx.recv() gave None (queue empty and every sender dropped)
SelectAudioClosed ==
    /\ UNCHANGED appVars
    /\ pc = "select"
    /\ ~audio_channel_closed
    /\ audio_chan = <<>>
    /\ AudioSendersDropped
    /\ LET send_end == ClosedTriggersEnd(end_signal_sent)
       IN  /\ ws_chan' = IF send_end THEN WsQueueAfterSend(EndMarker)
                                     ELSE ws_chan
           /\ ws_log' = IF send_end THEN WsLogAfterSend(EndMarker) ELSE ws_log
           /\ end_signal_sent' = IF send_end THEN TRUE ELSE end_signal_sent
           /\ finish_timeout' = IF send_end THEN TimerAfterReset
                                            ELSE finish_timeout
           /\ timer_arms' = IF send_end THEN timer_arms + 1 ELSE timer_arms
    /\ audio_channel_closed' = TRUE
    /\ pc' = "loop_top"
    /\ UNCHANGED <<stop_signal, result, capVars, audio_chan, ws_out,
                   writer_pc, is_transcribing, should_stop, session_finished,
                   inbound_n, diffVars, workerVars, events>>

\* five seconds pass after the reset: the sleep is ready (the first, 3600 s
\* deadline is never polled: its select! branch is closed until the reset)
TimerElapses ==
    /\ UNCHANGED appVars
    /\ finish_timeout = "armed"
    /\ pc \in {"loop_top", "select"}
    /\ finish_timeout' = "elapsed"
    /\ UNCHANGED <<stop_signal, pc, result, capVars, audio_chan, wsVars,
                   is_transcribing, should_stop, audio_channel_closed,
                   end_signal_sent, session_finished, timer_arms, inbound_n,
                   diffVars, workerVars, events>>

\* select!: the finish_timeout branch -> is_transcribing = false
SelectTimeout ==
    /\ UNCHANGED appVars
    /\ pc = "select"
    /\ TimeoutBranchOpen(end_signal_sent, session_finished)
    /\ finish_timeout = "elapsed"
    /\ finish_timeout' = "fired"
    /\ is_transcribing' = FALSE
    /\ pc' = "loop_top"
    /\ UNCHANGED <<stop_signal, result, capVars, audio_chan, wsVars,
                   should_stop, audio_channel_closed, end_signal_sent,
                   session_finished, timer_arms, inbound_n, diffVars,
                   workerVars, events>>

\* a hand-over that waits until the worker is back at recv
TypingSendReady_rendezvous(worker) == worker # "await"

\* typing_tx is the sender of an unbounded channel: send returns at once,
\* whatever the worker is doing
TypingSendReady(worker) == TRUE

\* a typing queue that holds only the newest request
TypingQueueAfterSend_replace(queue, queued) == queued

\* typing_tx.send(text_to_type.to_string()): appended to the unbounded queue
TypingQueueAfterSend(queue, queued) == queue \o queued

\* a transcript that keeps only the newest delta
AccumulatedAfter_replace(accumulated, delta) == delta

\* accumulated_text.push_str(text_to_type)
AccumulatedAfter(accumulated, delta) == accumulated \o delta

\* select!: Some(Ok(Message::Text(text))), text parsed, no error_code: the
\* token partition, the delta, the typing request, the two events, finished
RecvResponse(resp) ==
    /\ UNCHANGED appVars
    /\ pc = "select"
    /\ TypingSendReady(worker_pc)
    /\ LET parts == PartitionTokens(resp.tokens, <<>>, <<>>)
           current_final_text == CollectText(parts.final_tokens)
           delta == text_to_type(current_final_text, typed_text)
           preview_non_final == CollectText(parts.non_final_tokens)
           preview == preview_text(current_final_text, preview_non_final)
           type_it == ShouldType(delta)
           queued == IF type_it THEN <<delta>> ELSE <<>>
           emitted ==
               (IF type_it THEN <<Event("transcribed-text", delta)>> ELSE <<>>)
               \o (IF ShouldEmitPreview(preview)
                   THEN <<Event("partial-text", preview)>> ELSE <<>>)
           typed_after ==
               IF type_it
               THEN TypedTextAfterTyping(current_final_text, typed_text, delta)
               ELSE typed_text
       IN  /\ accumulated_text' =
                  IF type_it THEN AccumulatedAfter(accumulated_text, delta)
                             ELSE accumulated_text
           /\ typing_chan' = TypingQueueAfterSend(typing_chan, queued)
           /\ typed_text' = typed_after
           /\ events' = events \o emitted
           /\ hist' = Append(hist,
                  [msg_no |-> inbound_n + 1,
                   tokens |-> resp.tokens,
                   typed_before |-> typed_text,
                   final_tokens |-> parts.final_tokens,
                   non_final_tokens |-> parts.non_final_tokens,
                   current_final_text |-> current_final_text,
                   delta |-> delta,
                   preview |-> preview,
                   typed_after |-> typed_after,
                   queued |-> queued,
                   emitted |-> emitted])
    /\ session_finished' = IF resp.finished THEN TRUE ELSE session_finished
    /\ inbound_n' = inbound_n + 1
    /\ pc' = "loop_top"
    /\ UNCHANGED <<stop_signal, result, capVars, audio_chan, wsVars,
                   is_transcribing, should_stop, audio_channel_closed,
                   end_signal_sent, finish_timeout, timer_arms, worker_pc,
                   in_flight, type_log>>

\* an error record after which the loop goes round again
AfterServerError_continue == "loop_top"

\* `break` at line 229: control passes to the code after the loop
AfterServerError == "after_loop"

\* select!: a text message whose response carries error_code: emit
\* transcription-error and break
RecvServerError ==
    /\ UNCHANGED appVars
    /\ pc = "select"
    /\ events' = Append(events, Event("transcription-error", ServerErrorText))
    /\ pc' = AfterServerError
    /\ UNCHANGED <<stop_signal, result, inbound_n, capVars, audio_chan,
                   wsVars, loopVars, diffVars, workerVars>>

\* a loop that gives up on a message it cannot parse
RecvMalformed_ends ==
    /\ UNCHANGED appVars
    /\ pc = "select"
    /\ pc' = "loop_top"
    /\ inbound_n' = inbound_n + 1
    /\ is_transcribing' = FALSE
    /\ UNCHANGED <<stop_signal, result, capVars, audio_chan, wsVars,
                   should_stop, audio_channel_closed, end_signal_sent,
                   session_finished, finish_timeout, timer_arms, diffVars,
                   workerVars, events>>

\* select!: a text message that serde_json::from_str rejects: it is counted
\* and logged, and nothing else is done
RecvMalformed ==
    /\ UNCHANGED appVars
    /\ pc = "select"
    /\ pc' = "loop_top"
    /\ inbound_n' = inbound_n + 1
    /\ UNCHANGED <<stop_signal, result, capVars, audio_chan, wsVars,
                   loopVars, diffVars, workerVars, events>>

\* a loop that takes no notice of a close message
RecvClose_ignored ==
    /\ UNCHANGED appVars
    /\ pc = "select"
    /\ pc' = "loop_top"
    /\ UNCHANGED <<stop_signal, result, inbound_n, capVars, audio_chan,
                   wsVars, loopVars, diffVars, workerVars, events>>

\* select!: Some(Ok(Message::Close(_))) -> is_transcribing = false
RecvClose ==
    /\ UNCHANGED appVars
    /\ pc = "select"
    /\ is_transcribing' = FALSE
    /\ pc' = "loop_top"
    /\ UNCHANGED <<stop_signal, result, inbound_n, capVars, audio_chan,
                   wsVars, should_stop, audio_channel_closed, end_signal_sent,
                   session_finished, finish_timeout, timer_arms, diffVars,
                   workerVars, events>>

\* select!: Some(Err(e)) -> emit transcription-error, the loop goes on
RecvTransportError ==
    /\ UNCHANGED appVars
    /\ pc = "select"
    /\ events' = Append(events,
                        Event("transcription-error", TransportErrorText))
    /\ inbound_n' = inbound_n + 1
    /\ pc' = "loop_top"
    /\ UNCHANGED <<stop_signal, result, capVars, audio_chan, wsVars, loopVars,
                   diffVars, workerVars>>

\* select!: None, the inbound stream ended -> is_transcribing = false
RecvStreamEnd ==
    /\ UNCHANGED appVars
    /\ pc = "select"
    /\ is_transcribing' = FALSE
    /\ pc' = "loop_top"
    /\ UNCHANGED <<stop_signal, result, inbound_n, capVars, audio_chan,
                   wsVars, should_stop, audio_channel_closed, end_signal_sent,
                   session_finished, finish_timeout, timer_arms, diffVars,
                   workerVars, events>>

\* select!: any other message (binary, ping, pong): `_ => {}`
RecvOther ==
    /\ UNCHANGED appVars
    /\ pc = "select"
    /\ pc' = "loop_top"
    /\ UNCHANGED <<stop_signal, result, inbound_n, capVars, audio_chan,
                   wsVars, loopVars, diffVars, workerVars, events>>

\* after the loop: emit session-complete when accumulated_text is non-empty,
\* return Ok(())
AfterLoop ==
    /\ UNCHANGED appVars
    /\ pc = "after_loop"
    /\ events' = IF accumulated_text # <<>>
                 THEN Append(events, Event("session-complete", accumulated_text))
                 ELSE events
    /\ result' = "ok"
    /\ pc' = "force_stop"
    /\ UNCHANGED <<stop_signal, capVars, audio_chan, wsVars, loopVars,
                   inbound_n, diffVars, workerVars>>

(***************************************************************************)
(* audio/mod.rs: start_audio_capture after connect_and_transcribe returned.*)
(***************************************************************************)
\* stop_signal.store(true, Ordering::SeqCst)
ForceStop ==
    /\ UNCHANGED appVars
    /\ pc = "force_stop"
    /\ stop_signal' = TRUE
    /\ pc' = "join"
    /\ UNCHANGED <<result, capVars, audio_chan, wsVars, loopVars, inbound_n,
                   diffVars, workerVars, events>>

\* audio_thread.join() returns once the thread has exited; then `result`
Join ==
    /\ UNCHANGED appVars
    /\ pc = "join"
    /\ thread_pc = "exited"
    /\ pc' = "returned"
    /\ UNCHANGED <<stop_signal, result, capVars, audio_chan, wsVars, loopVars,
                   inbound_n, diffVars, workerVars, events>>

(***************************************************************************)
(* lib.rs: the recording task after start_audio_capture has returned.      *)
(***************************************************************************)
\* a task that reports no failure
TaskEvents_silent(res) == <<AppEvent("recording-stopped", 1)>>

\* lib.rs:266-276  match start_audio_capture(..).await: Ok only logs, Err(e)
\* emits recording-error; then recording-stopped in either case
TaskEvents(res) ==
    IF res = "ok"
    THEN <<AppEvent("recording-stopped", 1)>>
    ELSE <<AppEvent("recording-error", 1), AppEvent("recording-stopped", 1)>>

\* lib.rs:266-277  the tail of the spawned task
RecordingTaskEnd ==
    /\ pc = "returned"
    /\ pc' = "task_done"
    /\ is_recording' = FALSE
    /\ app_log' = app_log \o TaskEvents(result)
    /\ UNCHANGED <<stop_signal, result, capVars, audio_chan, wsVars, loopVars,
                   inbound_n, diffVars, workerVars, events, call_pc,
                   calls_made, n_spawned, sess_pc, sess_thread, stop_asked>>

(***************************************************************************)
(* soniox/mod.rs: the typing worker.                                       *)
(***************************************************************************)
\* a worker that takes the newest queued string first
NextToType_newest(queue) == queue[Len(queue)]

\* typing_rx.recv().await: the oldest queued string
NextToType(queue) == Head(queue)

\* while let Some(text) = typing_rx.recv().await { spawn_blocking(type_text) }
WorkerRecv ==
    /\ UNCHANGED appVars
    /\ worker_pc = "recv"
    /\ typing_chan # <<>>
    /\ in_flight' = Append(in_flight, NextToType(typing_chan))
    /\ typing_chan' = Tail(typing_chan)
    /\ worker_pc' = "await"
    /\ UNCHANGED <<stop_signal, pc, result, capVars, audio_chan, wsVars,
                   loopVars, inbound_n, diffVars, type_log, events>>

\* a worker that ends when an insertion call fails
WorkerAfterTyped_stops(outcome) == IF outcome = "ok" THEN "recv" ELSE "exited"

\* match type_result: Ok(Ok(())) does nothing, Ok(Err(e)) and Err(e) only
\* log; every arm falls through to the next typing_rx.recv()
WorkerAfterTyped(outcome) == "recv"

\* the spawn_blocking task completes: Ok(Ok(())), Ok(Err(e)) or Err(e)
WorkerTyped(outcome) ==
    /\ UNCHANGED appVars
    /\ worker_pc = "await"
    /\ type_log' = Append(type_log,
                          [text |-> Head(in_flight), outcome |-> outcome])
    /\ in_flight' = Tail(in_flight)
    /\ worker_pc' = WorkerAfterTyped(outcome)
    /\ UNCHANGED <<stop_signal, pc, result, capVars, audio_chan, wsVars,
                   loopVars, inbound_n, diffVars, typing_chan, events>>

\* a worker that stops as soon as typing_tx is dropped
WorkerSeesClosed_nodrain(queue, senders_dropped) == senders_dropped

\* typing_rx.recv() gives None only when the queue is empty and typing_tx
\* has been dropped
WorkerSeesClosed(queue, senders_dropped) == queue = <<>> /\ senders_dropped

\* typing_rx.recv() gave None (queue empty, typing_tx dropped): the task ends
WorkerExit ==
    /\ UNCHANGED appVars
    /\ worker_pc = "recv"
    /\ WorkerSeesClosed(typing_chan, SessionSendersDropped)
    /\ worker_pc' = "exited"
    /\ UNCHANGED <<stop_signal, pc, result, capVars, audio_chan, wsVars,
                   loopVars, inbound_n, diffVars, typing_chan, in_flight,
                   type_log, events>>

(***************************************************************************)
(* Specifications.                                                         *)
(***************************************************************************)
\* ws_read.next(): what the server delivers; the messages that lengthen the
\* session's history are bounded
Inbound ==
    \/ /\ inbound_n < MaxInbound
       /\ \E resp \in SessionResponses : RecvResponse(resp)
    \/ /\ inbound_n < MaxInbound
       /\ RecvTransportError
    \/ /\ inbound_n < MaxInbound
       /\ RecvMalformed
    \/ RecvServerError
    \/ RecvClose
    \/ RecvStreamEnd
    \/ RecvOther

\* capture thread, callback, writer task, event loop, the caller's stop
NextSession ==
    \/ StopRecording
    \/ OpenDeviceFail
    \/ SpawnCapture
    \/ BuildStreamOk
    \/ BuildStreamFail
    \/ PlayOk
    \/ PlayFail
    \/ PollStop
    \/ DropStream
    \/ CallbackInvoke
    \/ CallbackSend
    \/ ConnectFail
    \/ ConnectOk
    \/ WriterSendOk
    \/ WriterSendFail
    \/ WriterExit
    \/ LoopTop
    \/ SelectAudioFrame
    \/ SelectAudioClosed
    \/ TimerElapses
    \/ SelectTimeout
    \/ Inbound
    \/ AfterLoop
    \/ ForceStop
    \/ Join

\* type_text returns Ok(()), Err(e), or the blocking task fails
TypeOutcomes == {"ok", "err", "panic"}

NextWorker ==
    \/ WorkerRecv
    \/ \E outcome \in TypeOutcomes : WorkerTyped(outcome)
    \/ WorkerExit

Next == NextSession \/ NextWorker

\* one session: start_audio_capture from its call to its return, with the
\* tasks it spawns
Spec == Init /\ [][Next]_vars

\* the session without the typing worker's steps, under the scheduling the
\* runtime gives: a task that can run does run, a sleep that was armed elapses,
\* and select! (which polls its ready branches in random order) does not pass
\* over a ready timeout branch forever
FairSpec ==
    /\ Init
    /\ [][NextSession]_vars
    /\ WF_vars(LoopTop)
    /\ WF_vars(TimerElapses)
    /\ SF_vars(SelectTimeout)
    /\ WF_vars(AfterLoop)

\* FairSpec, and in addition: the capture thread is an OS thread and the
\* callback runs on the audio backend's thread, so each takes its next step
\* when it can; start_audio_capture goes on as soon as the call it waits
\* for has returned
FairJoinSpec ==
    /\ FairSpec
    /\ WF_vars(BuildStreamOk \/ BuildStreamFail)
    /\ WF_vars(PlayOk \/ PlayFail)
    /\ WF_vars(PollStop)
    /\ WF_vars(DropStream)
    /\ WF_vars(CallbackSend)
    /\ WF_vars(ForceStop)
    /\ WF_vars(Join)

\* FairJoinSpec, and in addition: a select! whose audio branch is ready
\* (a frame is queued, or the queue is closed) does not stay parked
FairStopSpec ==
    /\ FairJoinSpec
    /\ WF_vars(SelectAudioFrame)
    /\ WF_vars(SelectAudioClosed)

\* the recording task: start_audio_capture from its call to its return, then
\* the task's tail (the detached typing worker is not scheduled)
NextTask == NextSession \/ RecordingTaskEnd

SpecTask == Init /\ [][NextTask]_vars

\* token diffing and insertion: a connected session that receives responses
NextDiff ==
    \/ SpawnCapture
    \/ ConnectOk
    \/ LoopTop
    \/ /\ inbound_n < MaxResponses
       /\ \E resp \in DiffResponses : RecvResponse(resp)
    \/ AfterLoop
    \/ NextWorker

SpecDiff == Init /\ [][NextDiff]_vars

\* SpecDiff under the runtime's scheduling: the event loop and the worker
\* are spawned tasks that run when they can, and a type_text call returns
FairDiffSpec ==
    /\ SpecDiff
    /\ WF_vars(LoopTop)
    /\ WF_vars(AfterLoop)
    /\ WF_vars(WorkerRecv)
    /\ WF_vars(\E outcome \in TypeOutcomes : WorkerTyped(outcome))
    /\ WF_vars(WorkerExit)

\* ws_read.next() in the session below: every kind of inbound item, the
\* responses drawn from the token-diffing inputs
InboundEnd ==
    \/ /\ inbound_n < MaxResponses
       /\ \E resp \in DiffResponses : RecvResponse(resp)
    \/ /\ inbound_n < MaxResponses
       /\ RecvTransportError
    \/ /\ inbound_n < MaxResponses
       /\ RecvMalformed
    \/ RecvServerError
    \/ RecvClose
    \/ RecvStreamEnd
    \/ RecvOther

\* the ways a connected session ends: the event loop with the caller's stop,
\* the finalize timer and the inbound stream, up to the return of
\* connect_and_transcribe (capture thread and spawned tasks not scheduled)
NextEnd ==
    \/ StopRecording
    \/ SpawnCapture
    \/ ConnectOk
    \/ LoopTop
    \/ TimerElapses
    \/ SelectTimeout
    \/ InboundEnd
    \/ AfterLoop

SpecEnd == Init /\ [][NextEnd]_vars

\* the same session with its typing worker scheduled
NextEndTyped == NextEnd \/ NextWorker

SpecEndTyped == Init /\ [][NextEndTyped]_vars

(***************************************************************************)
(* Properties of the end-of-stream handshake.                              *)
(***************************************************************************)
\* number of ws_tx.send calls that carried the end marker
EndMarkerSends == Cardinality({i \in 1..Len(ws_log) : ws_log[i].msg = EndMarker})

\* end markers that are queued or already written
EndMarkersOut ==
    Cardinality({i \in 1..Len(ws_out) : ws_out[i] = EndMarker})
        + Cardinality({i \in 1..Len(ws_chan) : ws_chan[i] = EndMarker})

\* an audio frame was handed to the outbound queue after the end marker
AudioAfterEndMarker ==
    \E i, j \in 1..Len(ws_log) :
        i < j /\ ws_log[i].msg = EndMarker /\ ws_log[j].msg.kind = "binary"

\* connect_and_transcribe has returned
Returned == pc \in {"force_stop", "join", "returned"}

\* C1: in one run of connect_and_transcribe the end marker is handed to the
\* outbound queue at most once and the finalize timer is armed at most once,
\* and exactly once each as soon as either trigger was seen (the stop signal
\* loaded as true at the loop head, the audio channel reported closed),
\* whatever the order of the two triggers and whatever is still queued; the
\* one send is accepted unless the writer task has already ended
C1_EndMarkerOnce ==
    /\ EndMarkerSends <= 1
    /\ EndMarkersOut <= 1
    /\ timer_arms <= 1
    /\ (should_stop \/ audio_channel_closed) =>
           /\ end_signal_sent
           /\ EndMarkerSends = 1
           /\ timer_arms = 1
    /\ end_signal_sent => EndMarkerSends = 1 /\ timer_arms = 1
    /\ \A i \in 1..Len(ws_log) :
           (ws_log[i].msg = EndMarker /\ ws_log[i].ok /\ writer_pc = "running")
               => EndMarkersOut = 1

\* both triggers were seen in one run, the stop signal first and with frames
\* still queued, and the session has returned
C1_Witness ==
    /\ should_stop
    /\ audio_channel_closed
    /\ AudioAfterEndMarker
    /\ EndMarkerSends = 1
    /\ Returned

\* C2: once the end marker has been handed to the outbound queue, no audio
\* frame is handed to it for the rest of the session
C2_NoAudioAfterEndMarker == ~AudioAfterEndMarker

\* C3: once the end marker has been sent, connect_and_transcribe eventually
\* returns, whatever the server does or fails to do afterwards
C3_ReturnsAfterEndMarker == end_signal_sent ~> Returned

\* the session returned through the timeout branch: the end marker was sent,
\* no response was ever processed, finished never arrived
C3_Witness ==
    /\ Returned
    /\ end_signal_sent
    /\ finish_timeout = "fired"
    /\ ~session_finished
    /\ hist = <<>>
    /\ inbound_n = 0

(***************************************************************************)
(* Properties of token diffing and insertion, stated on the tokens of each *)
(* response as received.                                                   *)
(***************************************************************************)
\* a control marker: blanks, then '<', anything, '>', then blanks
IsControlMarker(text) ==
    \E i, j \in 1..Len(text) :
        /\ i < j
        /\ text[i] = "<"
        /\ text[j] = ">"
        /\ \A k \in 1..Len(text) : (k < i \/ k > j) => text[k] = " "

RECURSIVE Concat(_)
Concat(seqs) == IF seqs = <<>> THEN <<>> ELSE Head(seqs) \o Concat(Tail(seqs))

IsFinalText(token) == token.is_final /\ ~IsControlMarker(token.text)
IsTentativeText(token) == ~token.is_final /\ ~IsControlMarker(token.text)

\* the text of a response's final non-control tokens, in arrival order
FinalText(tokens) ==
    LET kept == SelectSeq(tokens, IsFinalText)
    IN  Concat([i \in 1..Len(kept) |-> kept[i].text])

\* the text of a response's non-final non-control tokens, in arrival order
TentativeText(tokens) ==
    LET kept == SelectSeq(tokens, IsTentativeText)
    IN  Concat([i \in 1..Len(kept) |-> kept[i].text])

Deltas == [i \in 1..Len(hist) |-> hist[i].delta]

\* every string handed to the typing worker, in the order of the responses
Enqueued == Concat([i \in 1..Len(hist) |-> hist[i].queued])

EventsNamed(evs, name) == SelectSeq(evs, LAMBDA e : e.name = name)

\* response i did not extend the text recorded before it
Anomaly(i) ==
    /\ hist[i].typed_before # <<>>
    /\ ~StartsWith(FinalText(hist[i].tokens), hist[i].typed_before)

\* C4: when every response's final text has the previously recorded
\* finalized text as a prefix, the deltas concatenated in order equal the
\* finalized text recorded after the last response
C4_DeltasRebuildFinalText ==
    (\A i \in 1..Len(hist) :
         StartsWith(FinalText(hist[i].tokens), hist[i].typed_before))
        => Concat(Deltas) = typed_text

\* two responses, each strictly extending the text recorded before it
C4_Witness ==
    /\ Len(hist) = 2
    /\ \A i \in 1..2 :
           /\ StartsWith(FinalText(hist[i].tokens), hist[i].typed_before)
           /\ FinalText(hist[i].tokens) # hist[i].typed_before
    /\ typed_text = <<"a", "b">>

C7_NoControlMarkerText ==
    /\ \A i \in 1..Len(hist) :
           LET h == hist[i]
               final_text == Concat([k \in 1..Len(h.final_tokens) |->
                                        h.final_tokens[k].text])
               tentative_text == Concat([k \in 1..Len(h.non_final_tokens) |->
                                            h.non_final_tokens[k].text])
           IN  /\ \A k \in 1..Len(h.final_tokens) :
                      ~IsControlMarker(h.final_tokens[k].text)
               /\ \A k \in 1..Len(h.non_final_tokens) :
                      ~IsControlMarker(h.non_final_tokens[k].text)
               /\ \E n \in 0..Len(final_text) : h.delta = Suffix(final_text, n)
               /\ h.preview = final_text \o tentative_text
               /\ h.delta = FinalText(h.tokens)
                      \/ StartsWith(FinalText(h.tokens), h.typed_before)
               /\ \A k \in 1..Len(h.queued) : h.queued[k] = h.delta
               /\ \A k \in 1..Len(h.emitted) :
                      \/ h.emitted[k] = Event("transcribed-text", h.delta)
                      \/ h.emitted[k] = Event("partial-text", h.preview)
    /\ accumulated_text = Concat(Enqueued)

\* a response carried a control marker between blanks as a final token, next
\* to a text token, and produced a delta and a preview
C7_Witness ==
    \E i \in 1..Len(hist) :
        /\ \E k \in 1..Len(hist[i].tokens) :
               /\ IsControlMarker(hist[i].tokens[k].text)
               /\ Head(hist[i].tokens[k].text) = " "
               /\ hist[i].tokens[k].is_final
        /\ hist[i].delta = <<"b">>
        /\ hist[i].preview = <<"b">>

\* C8: the preview of a response is the text of its final non-control tokens
\* followed by the text of its non-final non-control tokens; nothing of an
\* earlier response is in it
C8_PreviewOfThisResponse ==
    \A i \in 1..Len(hist) :
        /\ hist[i].preview =
               FinalText(hist[i].tokens) \o TentativeText(hist[i].tokens)
        /\ \A k \in 1..Len(hist[i].emitted) :
               hist[i].emitted[k].name = "partial-text"
                   => hist[i].emitted[k].payload =
                          FinalText(hist[i].tokens)
                              \o TentativeText(hist[i].tokens)

\* text was recorded by an earlier response, and the preview of a later
\* response with final and tentative text does not begin with it
C8_Witness ==
    \E i \in 1..Len(hist) :
        /\ hist[i].typed_before = <<"b">>
        /\ FinalText(hist[i].tokens) # <<>>
        /\ TentativeText(hist[i].tokens) # <<>>
        /\ hist[i].preview = <<"a", "b">>

\* C9: an empty delta makes no typing request and no transcribed-text event;
\* a non-empty delta makes exactly one of each, carrying the delta; a
\* partial-text event is emitted exactly when the preview is non-empty
C9_EventsPerResponse ==
    /\ \A i \in 1..Len(hist) :
           LET h == hist[i]
               typed_events == EventsNamed(h.emitted, "transcribed-text")
               preview_events == EventsNamed(h.emitted, "partial-text")
           IN  /\ h.delta = <<>> => h.queued = <<>> /\ typed_events = <<>>
               /\ h.delta # <<>> =>
                      /\ h.queued = <<h.delta>>
                      /\ typed_events = <<Event("transcribed-text", h.delta)>>
               /\ h.preview # <<>> =>
                      preview_events = <<Event("partial-text", h.preview)>>
               /\ h.preview = <<>> => preview_events = <<>>
               /\ Len(h.emitted) = Len(typed_events) + Len(preview_events)
    /\ EventsNamed(events, "transcribed-text") =
           [k \in 1..Len(Enqueued) |-> Event("transcribed-text", Enqueued[k])]
    /\ Len(EventsNamed(events, "partial-text")) =
           Cardinality({i \in 1..Len(hist) : hist[i].preview # <<>>})

\* a response with an empty delta and a non-empty preview emitted the preview
\* event alone, after a response that was typed
C9_Witness ==
    /\ Len(hist) = 2
    /\ hist[1].delta # <<>>
    /\ hist[2].delta = <<>>
    /\ hist[2].preview # <<>>
    /\ hist[2].emitted = <<Event("partial-text", hist[2].preview)>>
    /\ Len(Enqueued) = 1

\* the type_text calls started so far, in the order they were started
TypeCalls == [k \in 1..Len(type_log) |-> type_log[k].text] \o in_flight

\* C10: the worker starts its type_text calls on the queued strings in the
\* order they were enqueued, one string per call, and at most one call is in
\* progress at any time
C10_InsertionInOrder ==
    /\ Len(in_flight) <= 1
    /\ TypeCalls \o typing_chan = Enqueued
    /\ worker_pc = "await" <=> Len(in_flight) = 1

\* two different deltas were both waiting in the queue and have both been
\* typed, the first failing
C10_Witness ==
    /\ Len(Enqueued) = 2
    /\ Enqueued[1] # Enqueued[2]
    /\ Len(type_log) = 2
    /\ type_log[1].outcome # "ok"
    /\ type_log[2].text = Enqueued[2]

(***************************************************************************)
(* Properties of failures and of the session's end.                        *)
(***************************************************************************)
\* a type_text call has just completed
TypeCallCompletes == Len(type_log') = Len(type_log) + 1

\* C11: an insertion call that fails (type_text returned an error, or the
\* blocking task failed) leaves the worker running: the worker ends only
\* after the session dropped its sender and every queued string was handed
\* to a call, no queued string is skipped, and the completion of a call,
\* whatever its outcome, changes neither the event loop's state nor the
\* session's result
C11_WorkerSurvivesFailure ==
    /\ [](/\ worker_pc = "exited" =>
                /\ SessionSendersDropped
                /\ typing_chan = <<>>
                /\ in_flight = <<>>
                /\ [k \in 1..Len(type_log) |-> type_log[k].text] = Enqueued
          /\ TypeCalls \o typing_chan = Enqueued
          /\ result \in {"none", "ok"})
    /\ [][TypeCallCompletes =>
             /\ worker_pc' = "recv"
             /\ UNCHANGED <<stop_signal, pc, result, loopVars, diffVars,
                            typing_chan, events>>]_vars

\* the first call panicked, the second returned an error, both strings were
\* attempted, and the session ended with Ok and its session-complete event
C11_Witness ==
    /\ Len(Enqueued) = 2
    /\ Len(type_log) = 2
    /\ type_log[1].outcome = "panic"
    /\ type_log[2].outcome = "err"
    /\ type_log[2].text = Enqueued[2]
    /\ worker_pc = "exited"
    /\ result = "ok"
    /\ Len(EventsNamed(events, "session-complete")) = 1

\* C12: whenever connect_and_transcribe has completed, start_audio_capture
\* eventually has the stop signal true, the capture thread exited and joined,
\* and has returned
C12_JoinsAfterSession ==
    (pc \in {"force_stop", "join"})
        ~> (pc = "returned" /\ stop_signal /\ thread_pc = "exited")

\* connect_async succeeded in this session
Connected == writer_pc # "none"

\* the non-empty deltas computed so far, in the order of their responses
NonEmptyDeltas == SelectSeq(Deltas, LAMBDA d : d # <<>>)

\* C13: the accumulated transcript is always the in-order concatenation of
\* the non-empty deltas computed so far; no session-complete event is emitted
\* before connect_and_transcribe returns, and once a connected session has
\* returned, however it ended, there is exactly one such event, carrying
\* the transcript, if the transcript is non-empty, and none if it is empty
C13_TranscriptHandedOffOnce ==
    LET done == EventsNamed(events, "session-complete")
    IN  /\ accumulated_text = Concat(NonEmptyDeltas)
        /\ ~Returned => done = <<>>
        /\ (Returned /\ Connected) =>
               done = IF accumulated_text = <<>>
                      THEN <<>>
                      ELSE <<Event("session-complete", accumulated_text)>>

\* a session ended by the server's close or by the end of the inbound
\* stream (no timeout, no finished flag) after two non-empty deltas
C13_Witness ==
    /\ Returned
    /\ Connected
    /\ ~is_transcribing
    /\ finish_timeout # "fired"
    /\ ~session_finished
    /\ Len(NonEmptyDeltas) = 2
    /\ accumulated_text = NonEmptyDeltas[1] \o NonEmptyDeltas[2]
    /\ Len(EventsNamed(events, "session-complete")) = 1

\* the capture thread returned Err
ThreadFailed == thread_result \in {"err_build", "err_play"}

\* C14: when the capture thread failed and connect_and_transcribe did not
\* itself fail to connect, start_audio_capture returns the thread's failure
C14_ThreadFailureReturned ==
    (pc = "returned" /\ ThreadFailed /\ result # "err_connect")
        => result = thread_result

\* C15: once building the input stream has failed, no connection attempt is
\* made in that session, and start_audio_capture returns the build failure
C15_NoConnectAfterBuildFailure ==
    [][/\ (thread_result = "err_build" /\ pc = "connect") => pc' = "connect"
       /\ (pc' = "returned" /\ thread_result' = "err_build")
              => result' = "err_build"]_vars

\* the inbound stream has yielded an error in this session
TransportErrorSeen ==
    \E i \in 1..Len(events) :
        events[i] = Event("transcription-error", TransportErrorText)

\* C16: a session whose inbound stream yielded an error does not return Ok
C16_TransportErrorPropagated ==
    (Returned /\ TransportErrorSeen) => result # "ok"

\* the transcription-error events emitted for an error record
ServerErrorEvents ==
    SelectSeq(events,
              LAMBDA e : e = Event("transcription-error", ServerErrorText))

ServerErrorSeen == ServerErrorEvents # <<>>

\* the events that carry text: transcribed-text and partial-text
TextEvents ==
    SelectSeq(events,
              LAMBDA e : e.name \in {"transcribed-text", "partial-text"})

\* C17: once a response carrying an error_code has been received, the event
\* loop has ended and exactly one transcription-error event stands for it;
\* from the step that receives it onwards no response is processed (no delta,
\* no preview, no insertion request), nothing more is handed to the outbound
\* queue and no frame is taken from the audio queue
C17_ServerErrorEndsLoop ==
    /\ [](ServerErrorSeen =>
              /\ pc \in {"after_loop", "force_stop", "join", "returned"}
              /\ Len(ServerErrorEvents) = 1)
    /\ [][ServerErrorSeen' =>
              /\ hist' = hist
              /\ Enqueued' = Enqueued
              /\ TextEvents' = TextEvents
              /\ ws_log' = ws_log
              /\ Len(audio_chan') >= Len(audio_chan)]_vars

\* an error record arrived after one response had been processed and while a
\* frame was waiting; the session has returned and the frame is still there
C17_Witness ==
    /\ ServerErrorSeen
    /\ pc = "returned"
    /\ Len(hist) = 1
    /\ audio_chan # <<>>
    /\ Len(EventsNamed(events, "transcription-error")) = 1

\* a counted inbound message that produced neither a history record nor an
\* event: a text message that failed to parse
MalformedDropped ==
    /\ inbound_n' = inbound_n + 1
    /\ hist' = hist
    /\ events' = events

\* C18: a text message that fails to parse is dropped: the loop goes round
\* again with the recorded finalized text, the transcript, the end-marker and
\* finished flags, the insertion queue and the result all unchanged, and
\* every response, whatever was dropped before it, is diffed against exactly
\* the finalized text the previous response left behind
C18_MalformedIgnored ==
    /\ [][MalformedDropped =>
              /\ pc' = "loop_top"
              /\ UNCHANGED <<typed_text, accumulated_text, is_transcribing,
                             audio_channel_closed, end_signal_sent,
                             session_finished, finish_timeout, typing_chan,
                             ws_log, result>>]_vars
    /\ [](\A i \in 1..Len(hist) :
              hist[i].typed_before =
                  IF i = 1 THEN <<>> ELSE hist[i - 1].typed_after)

\* the first message of the session failed to parse and the second, a
\* response, was processed: its delta was typed and the session is running
C18_Witness ==
    /\ Len(hist) = 1
    /\ hist[1].msg_no = 2
    /\ ~TransportErrorSeen
    /\ hist[1].delta # <<>>
    /\ typed_text = hist[1].current_final_text
    /\ is_transcribing
    /\ pc = "loop_top"

(***************************************************************************)
(* Properties of the outbound stream.                                      *)
(***************************************************************************)
\* how many of the messages in a sequence are the configuration message
ConfigCount(msgs) == Cardinality({i \in 1..Len(msgs) : msgs[i] = ConfigMsg})

\* C19: a session that has not connected hands nothing to the connection; a
\* session that connected hands the configuration message to the outbound
\* queue exactly once, as the first message and before any frame or end
\* marker, whatever was already waiting in the audio queue; what the writer
\* writes begins with it, it is never written twice, and it is written
\* exactly once as soon as anything is written at all
C19_ConfigFirst ==
    /\ ~Connected => ws_log = <<>> /\ ws_chan = <<>> /\ ws_out = <<>>
    /\ Connected =>
           /\ ws_log # <<>>
           /\ ws_log[1] = [msg |-> ConfigMsg, ok |-> TRUE]
           /\ ConfigCount([i \in 1..Len(ws_log) |-> ws_log[i].msg]) = 1
           /\ ConfigCount(ws_out \o ws_chan) <= 1
           /\ writer_pc \in {"running", "exited"} =>
                  /\ ConfigCount(ws_out \o ws_chan) = 1
                  /\ (ws_out \o ws_chan)[1] = ConfigMsg
           /\ ws_out # <<>> => ws_out[1] = ConfigMsg

\* a session with frames and a stop request: the connection carried the
\* configuration first, then both frames, then the end marker, and the
\* session has returned
C19_Witness ==
    /\ Connected
    /\ pc = "returned"
    /\ ws_out = <<ConfigMsg, BinaryMsg(1), BinaryMsg(2), EndMarker>>

\* the frame numbers of the audio messages in a sequence, in order
FramesOf(msgs) ==
    LET audio == SelectSeq(msgs, LAMBDA m : m.kind = "binary")
    IN  [i \in 1..Len(audio) |-> audio[i].frame]

StrictlyIncreasing(nums) ==
    \A i, j \in 1..Len(nums) : i < j => nums[i] < nums[j]

LoopExits == pc \in {"loop_top", "select"} /\ pc' = "after_loop"

\* C21: setting the stop signal changes nothing in the event loop, and the
\* loop head that loads it goes on to select! unless the session is already
\* finished. The loop is left only at its head with session_finished set
\* (finished: true) or is_transcribing cleared, or by the break on an error
\* record; is_transcribing is cleared only by a select! branch, either the
\* timeout branch or an inbound close or end of stream. Whenever the loop is
\* left after the stop signal was loaded as true, the end marker has been
\* queued exactly once
C21_StopNeverEndsLoop ==
    [][/\ stop_signal' # stop_signal =>
              /\ ~LoopExits
              /\ UNCHANGED <<is_transcribing, session_finished>>
       /\ (pc = "loop_top" /\ is_transcribing /\ ~session_finished
              /\ pc' # pc) => pc' = "select"
       /\ LoopExits =>
              /\ \/ pc = "loop_top" /\ session_finished
                 \/ pc = "loop_top" /\ ~is_transcribing
                 \/ pc = "select" /\ ~ServerErrorSeen /\ ServerErrorSeen'
              /\ should_stop' => end_signal_sent' /\ EndMarkerSends' = 1
       /\ (is_transcribing /\ ~is_transcribing') =>
              /\ pc = "select"
              /\ \/ finish_timeout = "elapsed" /\ finish_timeout' = "fired"
                 \/ UNCHANGED <<stop_signal, should_stop, end_signal_sent,
                                finish_timeout, events, hist, ws_log>>]_vars

\* the stop signal was loaded at the loop head, the end marker was queued,
\* and the loop went on: it processed a response after that and was ended
\* only by the finalize timeout
C21_Witness ==
    /\ should_stop
    /\ end_signal_sent
    /\ pc = "after_loop"
    /\ finish_timeout = "fired"
    /\ Len(hist) = 1
    /\ ~session_finished
    /\ ws_log[2].msg = EndMarker

\* the event loop is running
InLoop == pc \in {"loop_top", "select"}

\* C22: if the stop signal is set while the event loop is running, then
\* eventually the end marker has been queued exactly once and the finalize
\* timer armed, or the loop has been left for another reason; no inbound
\* message is needed for that
C22_StopLeadsToEndMarker ==
    (stop_signal /\ InLoop)
        ~> \/ /\ end_signal_sent
              /\ EndMarkerSends = 1
              /\ finish_timeout \in {"armed", "elapsed", "fired"}
           \/ ~InLoop

\* the stop signal was set while the loop was parked in select! with an
\* empty audio queue and a silent server: the capture thread dropped the
\* stream, the loop saw the queue closed and queued the end marker
C22_Witness ==
    /\ stop_signal
    /\ ~should_stop
    /\ audio_channel_closed
    /\ thread_result = "ok"
    /\ end_signal_sent
    /\ finish_timeout = "armed"
    /\ inbound_n = 0
    /\ InLoop

\* C23: the timeout branch and finished: true exclude each other. When the
\* finalize timer has fired, the loop is over with the end marker sent, the
\* transcript still is the concatenation of every non-empty delta, every
\* delta was handed to a type_text call or is still queued for the worker,
\* in order, and once the session has returned its result is Ok and the
\* transcript was handed off. When finished: true arrived, the session
\* returns Ok without the timeout branch having been taken
C23_TimeoutKeepsEverything ==
    LET done == EventsNamed(events, "session-complete")
    IN  /\ ~(session_finished /\ finish_timeout = "fired")
        /\ finish_timeout = "fired" =>
               /\ ~is_transcribing
               /\ end_signal_sent
               /\ accumulated_text = Concat(NonEmptyDeltas)
               /\ Enqueued = NonEmptyDeltas
               /\ TypeCalls \o typing_chan = Enqueued
               /\ Returned =>
                      /\ result = "ok"
                      /\ accumulated_text # <<>> =>
                             done = <<Event("session-complete",
                                            accumulated_text)>>
        /\ (session_finished /\ Returned) => result = "ok"

\* two deltas were computed, the finalize timer fired before any
\* finished: true, and the session returned Ok with the first delta typed
\* and the second still queued for the worker
C23_Witness ==
    /\ finish_timeout = "fired"
    /\ Returned
    /\ result = "ok"
    /\ Len(NonEmptyDeltas) = 2
    /\ Len(type_log) = 1
    /\ typing_chan = <<NonEmptyDeltas[2]>>
    /\ worker_pc = "recv"

\* the loop was told to end by a close message or by the end of the inbound
\* stream (is_transcribing cleared, and not by the timeout branch)
EndedByPeer == Connected /\ ~is_transcribing /\ finish_timeout # "fired"

\* C24: wherever the loop waits in select!, a close message and the end of
\* the inbound stream are both accepted and clear is_transcribing, whatever
\* the stop signal and the end-marker flag are; after that no response is
\* processed and nothing is handed to the outbound queue, the loop is left
\* at its next head, and connect_and_transcribe eventually returns Ok
C24_CloseEndsSession ==
    /\ [](pc = "select" =>
              /\ ENABLED (RecvClose /\ ~is_transcribing')
              /\ ENABLED (RecvStreamEnd /\ ~is_transcribing'))
    /\ [](EndedByPeer =>
              /\ pc \in {"loop_top", "after_loop", "force_stop", "join",
                          "returned"}
              /\ Returned => result = "ok")
    /\ [][EndedByPeer =>
              /\ EndedByPeer'
              /\ UNCHANGED <<hist, ws_log, typed_text, accumulated_text>>
              /\ pc = "loop_top" => pc' \in {"loop_top", "after_loop"}]_vars
    /\ (EndedByPeer ~> (Returned /\ result = "ok"))

\* the session was ended by the peer before any stop request and before
\* the end marker, with no error record received, and has returned Ok
C24_Witness ==
    /\ EndedByPeer
    /\ Returned
    /\ result = "ok"
    /\ ~stop_signal
    /\ ~end_signal_sent
    /\ events = <<>>
    /\ Len(hist) = 0

(***************************************************************************)
(* Properties of the decoupling of insertion and capture.                  *)
(***************************************************************************)
\* C25: while a type_text call is in progress, every step of the event loop
\* that its own state allows is enabled: the loop head, forwarding a queued
\* frame, processing any response, the timeout branch; and the step that
\* enqueues a delta completes the hand-over itself, appending to the queue
\* without moving the worker
C25_LoopNeverWaitsForWorker ==
    /\ [](worker_pc = "await" =>
              /\ pc = "loop_top" => ENABLED LoopTop
              /\ (pc = "select" /\ ~audio_channel_closed
                     /\ audio_chan # <<>>) => ENABLED SelectAudioFrame
              /\ pc = "select" =>
                     \A resp \in SessionResponses : ENABLED RecvResponse(resp)
              /\ (pc = "select" /\ finish_timeout = "elapsed"
                     /\ TimeoutBranchOpen(end_signal_sent, session_finished))
                     => ENABLED SelectTimeout)
    /\ [][Enqueued' # Enqueued =>
              /\ typing_chan' = typing_chan \o <<Enqueued'[Len(Enqueued')]>>
              /\ UNCHANGED <<worker_pc, in_flight, type_log>>]_vars

\* the worker never came back from its first type_text call; the loop
\* nevertheless forwarded both frames, took the timeout branch and ended,
\* and start_audio_capture returned
C25_Witness ==
    /\ worker_pc = "await"
    /\ type_log = <<>>
    /\ in_flight = Enqueued
    /\ Len(Enqueued) = 1
    /\ pc = "returned"
    /\ finish_timeout = "fired"
    /\ FramesOf([i \in 1..Len(ws_log) |-> ws_log[i].msg]) = <<1, 2>>

\* C26: a callback invocation gets past its stop check, and so makes a
\* frame, only in a step in which the stop signal is false; a frame enters
\* the audio queue only as the push of the one invocation that got past the
\* check, and it is that invocation's frame; with the stop signal true and
\* no invocation past its check, nothing can be pushed
C26_NoPushAfterStopRead ==
    /\ [][/\ frames_made' # frames_made =>
                 /\ ~stop_signal
                 /\ cb_pc = "idle"
                 /\ cb_pc' = "send"
                 /\ frames_made' = frames_made + 1
                 /\ audio_chan' = audio_chan
          /\ Len(audio_chan') > Len(audio_chan) =>
                 /\ cb_pc = "send"
                 /\ cb_pc' = "idle"
                 /\ audio_chan' = Append(audio_chan, frames_made)
                 /\ frames_made' = frames_made]_vars
    /\ []((stop_signal /\ cb_pc = "idle") =>
              /\ ~ENABLED CallbackInvoke
              /\ ~ENABLED CallbackSend)

\* the stop signal is true while the stream is still playing and the event
\* loop still takes frames: the one frame made before the stop was
\* forwarded, and no further frame has been made or queued
C26_Witness ==
    /\ stop_signal
    /\ thread_pc = "running"
    /\ cb_pc = "idle"
    /\ frames_made = 1
    /\ audio_chan = <<>>
    /\ pc = "select"
    /\ ~audio_channel_closed
    /\ FramesOf([i \in 1..Len(ws_log) |-> ws_log[i].msg]) = <<1>>

(***************************************************************************)
(* Properties of a failed connection.                                      *)
(***************************************************************************)
\* C27: once connect_async has failed, the session never is at its
\* connection attempt again and stays unconnected: nothing was or is handed
\* to the outbound queue or written, no response is processed, nothing is
\* queued for insertion and no event is emitted by the session; the stop
\* signal is forced true before the join, and when start_audio_capture has
\* returned, the capture thread has exited and the result is the
\* connection error
C27_ConnectFailureReturned ==
    result = "err_connect" =>
        /\ pc \in {"force_stop", "join", "returned"}
        /\ ~Connected
        /\ ws_log = <<>> /\ ws_chan = <<>> /\ ws_out = <<>>
        /\ hist = <<>> /\ typing_chan = <<>> /\ type_log = <<>>
        /\ events = <<>>
        /\ pc \in {"join", "returned"} => stop_signal
        /\ pc = "returned" => thread_pc = "exited"

\* the connection failed while a captured frame was waiting: the frame was
\* never sent, the capture thread was stopped and joined, and the
\* connection error was returned
C27_Witness ==
    /\ pc = "returned"
    /\ result = "err_connect"
    /\ thread_result = "ok"
    /\ audio_chan # <<>>
    /\ stop_signal


(***************************************************************************)
(* The session coordinator (lib.rs): toggle_recording, start_recording,    *)
(* stop_recording and the recording task that toggle_recording spawns.     *)
(* AppState holds ONE stop_signal and ONE is_recording, shared by every    *)
(* recording task.  Each task's session is reduced to the steps that read  *)
(* or write these two: streaming -> draining (end marker queued, finalize  *)
(* timer armed) -> force_stop -> join -> finish -> done.                   *)
(***************************************************************************)

\* the tasks whose protocol loop is running when the user stops
StreamingSessions == {s \in Sessions : sess_pc[s] = "streaming"}

\* lib.rs:211  `if state.is_recording.load(..)`: the branch a call takes
ToggleBranch(recording) == IF recording THEN "stopping" ELSE "starting"

\* a caller that is not inside toggle_recording: it has not called yet, or
\* its last call returned Ok(()) or one of the two Err values
NotInCall == {"idle", "ok", "err_api_key", "err_window"}

\* lib.rs:211  toggle_recording reads is_recording; start_recording
\* (lib.rs:290-296) is the same call.  The hotkey handler runs each call in
\* a task of its own, so a second call can read before the first one stores.
ToggleCheck(c) ==
    /\ call_pc[c] \in NotInCall
    /\ calls_made < MaxCalls
    /\ calls_made' = calls_made + 1
    /\ call_pc' = [call_pc EXCEPT ![c] = ToggleBranch(is_recording)]
    /\ UNCHANGED <<stop_signal, sessionVars, is_recording, n_spawned,
                   sess_pc, sess_thread, stop_asked, app_log>>

\* lib.rs:212-217  the stopping branch
ToggleStop(c) ==
    /\ call_pc[c] = "stopping"
    /\ stop_signal' = TRUE
    /\ is_recording' = FALSE
    /\ app_log' = Append(app_log, AppEvent("recording-stopped", n_spawned))
    /\ stop_asked' = stop_asked \cup StreamingSessions
    /\ call_pc' = [call_pc EXCEPT ![c] = "ok"]
    /\ UNCHANGED <<sessionVars, calls_made, n_spawned, sess_pc, sess_thread>>

\* why the starting branch gives up: settings.api_key.is_empty()
\* (lib.rs:224), or capture_focused_window() failed (lib.rs:231-238)
RejectReasons == {"err_api_key", "err_window"}

\* a rejection that emits nothing
RejectedEvents_none(why) == <<>>

\* lib.rs:226, 235  app.emit("recording-error", ..), not tied to any task
RejectedEvents(why) == <<AppEvent("recording-error", 0)>>

\* lib.rs:222-238  the starting branch gives up: recording-error is
\* emitted and Err returned
ToggleRejected(c, why) ==
    /\ call_pc[c] = "starting"
    /\ app_log' = app_log \o RejectedEvents(why)
    /\ call_pc' = [call_pc EXCEPT ![c] = why]
    /\ UNCHANGED <<stop_signal, sessionVars, is_recording, calls_made,
                   n_spawned, sess_pc, sess_thread, stop_asked>>

\* lib.rs:247-283  the starting branch: reset the stop signal, set
\* is_recording, emit recording-started, spawn the recording task
\* (audio/mod.rs:56 spawns its capture thread, soniox/mod.rs:158 its loop)
ToggleStart(c) ==
    /\ call_pc[c] = "starting"
    /\ n_spawned < MaxSessions
    /\ stop_signal' = FALSE
    /\ is_recording' = TRUE
    /\ n_spawned' = n_spawned + 1
    /\ app_log' = Append(app_log, AppEvent("recording-started", n_spawned + 1))
    /\ sess_pc' = [sess_pc EXCEPT ![n_spawned + 1] = "streaming"]
    /\ sess_thread' = [sess_thread EXCEPT ![n_spawned + 1] = "running"]
    /\ call_pc' = [call_pc EXCEPT ![c] = "ok"]
    /\ UNCHANGED <<sessionVars, calls_made, stop_asked>>

\* lib.rs:298-309  stop_recording: unconditional
StopRecordingCmd ==
    /\ calls_made < MaxCalls
    /\ calls_made' = calls_made + 1
    /\ stop_signal' = TRUE
    /\ is_recording' = FALSE
    /\ app_log' = Append(app_log, AppEvent("recording-stopped",
                                           IF is_recording THEN n_spawned ELSE 0))
    /\ stop_asked' = stop_asked \cup StreamingSessions
    /\ UNCHANGED <<sessionVars, call_pc, n_spawned, sess_pc, sess_thread>>

\* audio/mod.rs:146-152  the capture thread's poll reads the stop signal as true
SessThreadSeesStop(s) ==
    /\ sess_thread[s] = "running"
    /\ stop_signal
    /\ sess_thread' = [sess_thread EXCEPT ![s] = "exited"]
    /\ UNCHANGED <<stop_signal, sessionVars, is_recording, call_pc,
                   calls_made, n_spawned, sess_pc, stop_asked, app_log>>

\* soniox/mod.rs:159-171  the loop head reads the stop signal as true: end
\* marker queued, finalize timer armed
SessLoopSeesStop(s) ==
    /\ sess_pc[s] = "streaming"
    /\ stop_signal
    /\ sess_pc' = [sess_pc EXCEPT ![s] = "draining"]
    /\ UNCHANGED <<stop_signal, sessionVars, is_recording, call_pc,
                   calls_made, n_spawned, sess_thread, stop_asked, app_log>>

\* soniox/mod.rs:192-203  the frame queue is closed (its capture thread has
\* dropped the stream): end marker queued, finalize timer armed
SessAudioClosed(s) ==
    /\ sess_pc[s] = "streaming"
    /\ sess_thread[s] = "exited"
    /\ sess_pc' = [sess_pc EXCEPT ![s] = "draining"]
    /\ UNCHANGED <<stop_signal, sessionVars, is_recording, call_pc,
                   calls_made, n_spawned, sess_thread, stop_asked, app_log>>

\* soniox/mod.rs:209-212, 296-301  finalize timeout, or finished: true
SessDrainEnds(s) ==
    /\ sess_pc[s] = "draining"
    /\ sess_pc' = [sess_pc EXCEPT ![s] = "force_stop"]
    /\ UNCHANGED <<stop_signal, sessionVars, is_recording, call_pc,
                   calls_made, n_spawned, sess_thread, stop_asked, app_log>>

\* soniox/mod.rs:223-230, 304-308, 314-318  error record, close, end of stream
SessPeerEnds(s) ==
    /\ sess_pc[s] \in {"streaming", "draining"}
    /\ sess_pc' = [sess_pc EXCEPT ![s] = "force_stop"]
    /\ UNCHANGED <<stop_signal, sessionVars, is_recording, call_pc,
                   calls_made, n_spawned, sess_thread, stop_asked, app_log>>

\* audio/mod.rs:159  stop_signal.store(true) on the shared signal
SessForceStop(s) ==
    /\ sess_pc[s] = "force_stop"
    /\ stop_signal' = TRUE
    /\ sess_pc' = [sess_pc EXCEPT ![s] = "join"]
    /\ UNCHANGED <<sessionVars, is_recording, call_pc, calls_made, n_spawned,
                   sess_thread, stop_asked, app_log>>

\* audio/mod.rs:162-164  audio_thread.join()
SessJoin(s) ==
    /\ sess_pc[s] = "join"
    /\ sess_thread[s] = "exited"
    /\ sess_pc' = [sess_pc EXCEPT ![s] = "finish"]
    /\ UNCHANGED <<stop_signal, sessionVars, is_recording, call_pc,
                   calls_made, n_spawned, sess_thread, stop_asked, app_log>>

\* lib.rs:274-276  the recording task's tail: is_recording.store(false),
\* emit recording-stopped
SessTaskEnd(s) ==
    /\ sess_pc[s] = "finish"
    /\ is_recording' = FALSE
    /\ app_log' = Append(app_log, AppEvent("recording-stopped", s))
    /\ sess_pc' = [sess_pc EXCEPT ![s] = "done"]
    /\ UNCHANGED <<stop_signal, sessionVars, call_pc, calls_made, n_spawned,
                   sess_thread, stop_asked>>

NextApp ==
    \/ \E c \in Callers : ToggleCheck(c)
    \/ \E c \in Callers : ToggleStop(c)
    \/ \E c \in Callers : \E why \in RejectReasons : ToggleRejected(c, why)
    \/ \E c \in Callers : ToggleStart(c)
    \/ StopRecordingCmd
    \/ \E s \in Sessions : SessThreadSeesStop(s)
    \/ \E s \in Sessions : SessLoopSeesStop(s)
    \/ \E s \in Sessions : SessAudioClosed(s)
    \/ \E s \in Sessions : SessDrainEnds(s)
    \/ \E s \in Sessions : SessPeerEnds(s)
    \/ \E s \in Sessions : SessForceStop(s)
    \/ \E s \in Sessions : SessJoin(s)
    \/ \E s \in Sessions : SessTaskEnd(s)

SpecApp == Init /\ [][NextApp]_vars

\* A call that has read is_recording runs to its end; the capture thread
\* polls every 100 ms; the loop head runs at every wakeup of the select
\* (frames keep arriving while the thread runs); the finalize timer fires
\* 5 s after it is armed; the task's tail is straight-line code.
FairSpecApp ==
    /\ SpecApp
    /\ \A c \in Callers : WF_vars(ToggleStop(c))
    /\ \A c \in Callers : WF_vars(ToggleStart(c)
                                  \/ \E why \in RejectReasons :
                                         ToggleRejected(c, why))
    /\ \A s \in Sessions : WF_vars(SessThreadSeesStop(s))
    /\ \A s \in Sessions : WF_vars(SessLoopSeesStop(s))
    /\ \A s \in Sessions : WF_vars(SessAudioClosed(s))
    /\ \A s \in Sessions : WF_vars(SessDrainEnds(s))
    /\ \A s \in Sessions : WF_vars(SessForceStop(s))
    /\ \A s \in Sessions : WF_vars(SessJoin(s))
    /\ \A s \in Sessions : WF_vars(SessTaskEnd(s))


\* a recording session is active while its protocol loop or its capture
\* thread runs
Active(s) == sess_pc[s] \in {"streaming", "draining"} \/ sess_thread[s] = "running"

ActiveSessions == {s \in Sessions : Active(s)}

\* C28: at most one recording session (capture thread plus protocol
\* session) is active at any time, whatever the sequence and interleaving of
\* toggle_recording, start_recording and stop_recording calls.
C28_AtMostOneSession == Cardinality(ActiveSessions) <= 1


\* the user has not stopped session t, and its protocol loop is running
StillRecording(t) == sess_pc[t] = "streaming" /\ t \notin stop_asked

\* the step of session s's completion that stores true into the stop signal
ForcesStopOn(s) ==
    /\ sess_pc[s] = "force_stop"
    /\ sess_pc'[s] = "join"
    /\ ~stop_signal
    /\ stop_signal'

\* the step of session s's completion that stores false into is_recording
ClearsRecording(s) ==
    /\ sess_pc[s] = "finish"
    /\ sess_pc'[s] = "done"
    /\ is_recording
    /\ ~is_recording'

\* C29: a stop request is never lost: a session that was streaming when the
\* user stopped eventually has its capture thread exited and its protocol
\* loop ended, even if a new recording is started in between; and the
\* completion of an earlier session neither forces the stop signal on nor
\* clears is_recording while a later session is still recording.
C29_StopNeverLost ==
    /\ \A s \in Sessions :
          (s \in stop_asked) ~>
              (sess_pc[s] \notin {"streaming", "draining"}
                   /\ sess_thread[s] = "exited")
    /\ [][\A s \in Sessions : \A t \in Sessions :
              (s < t /\ StillRecording(t))
                  => (~ForcesStopOn(s) /\ ~ClearsRecording(s))]_vars


StoppedEvents(s) ==
    {i \in 1..Len(app_log) : app_log[i] = AppEvent("recording-stopped", s)}

StartedEvents(s) ==
    {i \in 1..Len(app_log) : app_log[i] = AppEvent("recording-started", s)}

\* C30: every recording-started event is followed by exactly one
\* recording-stopped event for that session: never a second one, and once
\* the session's task is over there is one, whether the user ended the
\* session or it ended on its own.
C30_ExactlyOneStopped ==
    \A s \in Sessions :
        /\ Cardinality(StoppedEvents(s)) <= Cardinality(StartedEvents(s))
        /\ Cardinality(StartedEvents(s)) <= 1
        /\ sess_pc[s] = "done" => Cardinality(StoppedEvents(s)) = 1


\* the strings handed to type_text so far, finished calls only
TypedSoFar == [k \in 1..Len(type_log) |-> type_log[k].text]

\* C31: every delta enqueued to the insertion worker is passed to type_text
\* exactly once: at any moment the strings typed, in the call and still
\* queued are together the strings enqueued; the worker terminates only
\* with typing_tx dropped and nothing queued or in a call; and what is
\* enqueued is eventually typed and the worker then ends, also for strings
\* still queued when connect_and_transcribe has returned.
C31_EveryDeltaTypedOnce ==
    /\ [](TypeCalls \o typing_chan = Enqueued)
    /\ [](worker_pc = "exited"
            => SessionSendersDropped /\ TypedSoFar = Enqueued)
    /\ \A k \in 1..MaxResponses :
          (Len(Enqueued) >= k) ~> (Len(type_log) >= k)
    /\ SessionSendersDropped ~> (worker_pc = "exited" /\ TypedSoFar = Enqueued)

\* connect_and_transcribe has returned, one string is still queued and the
\* worker is inside the call for the one before it
C31_Witness ==
    /\ SessionSendersDropped
    /\ worker_pc = "await"
    /\ Len(in_flight) = 1
    /\ Len(typing_chan) = 1
    /\ Enqueued = in_flight \o typing_chan


\* the recording-error events emitted so far
ErrorReports ==
    {i \in 1..Len(app_log) : app_log[i].name = "recording-error"}

\* C32: with no input device, or no default input configuration,
\* start_audio_capture returns the error with no capture thread spawned and
\* no connection attempted, the failing step leaves the stop signal as it
\* was, nothing runs again afterwards, and the recording task reports the
\* failure with exactly one recording-error event.
C32_DeviceFailureReportedOnce ==
    /\ [](result = "err_device"
            => /\ pc \in {"returned", "task_done"}
               /\ thread_pc = "none"
               /\ cb_pc = "idle"
               /\ ~Connected
               /\ ws_log = <<>>
               /\ events = <<>>
               /\ Cardinality(ErrorReports)
                      = (IF pc = "task_done" THEN 1 ELSE 0))
    /\ [][(result # "err_device" /\ result' = "err_device")
              => (pc = "start" /\ stop_signal' = stop_signal)]_vars
    /\ [][result = "err_device" => result' = "err_device"]_vars

\* the device failed and the task has ended: one recording-error, then
\* recording-stopped
C32_Witness ==
    /\ result = "err_device"
    /\ pc = "task_done"
    /\ app_log = <<AppEvent("recording-error", 1),
                   AppEvent("recording-stopped", 1)>>


\* the frames audio_rx.recv() has handed to the event loop, in that order
ReceivedFrames == FramesOf([i \in 1..Len(ws_log) |-> ws_log[i].msg])

\* the frame a callback invocation is pushing
FrameInPush == IF cb_pc = "send" THEN <<frames_made>> ELSE <<>>

\* C33: the frame queue never holds more than its capacity; a push that
\* finds it full waits and the frame is not dropped: the frames received,
\* queued and in a waiting push are, in this order, every frame a callback
\* invocation decided to push; and the queue's receiver is not dropped
\* while a push is waiting.
C33_QueueBoundedNoDrop ==
    /\ Len(audio_chan) <= AudioQueueCap
    /\ ReceivedFrames \o audio_chan \o FrameInPush
           = [i \in 1..frames_made |-> i]
    /\ pc \in {"returned", "task_done"} => cb_pc = "idle"

\* the queue is full and the push of the next frame is waiting
C33_Witness ==
    /\ Len(audio_chan) = AudioQueueCap
    /\ cb_pc = "send"
    /\ frames_made = Len(ReceivedFrames) + Len(audio_chan) + 1


\* the stream was started (stream.play() returned Ok) and is not yet dropped
StreamLive == thread_pc \in {"running", "dropping"}

\* a step of start_audio_capture or of connect_and_transcribe
ConsumerStep == pc' # pc \/ result' # result

\* C34: a started stream is torn down only by the capture thread, and only
\* after that thread has read the stop signal as true: a live stream goes
\* away only through the thread's poll loop having been left with the stop
\* signal true, and never in a step of the consumer side.
C34_TeardownOnlyByThread ==
    /\ [](thread_pc = "dropping" \/ thread_result = "ok" => stop_signal)
    /\ [][(thread_pc = "running" /\ thread_pc' # "running")
              => (thread_pc' = "dropping" /\ stop_signal /\ ~ConsumerStep)]_vars
    /\ [][(thread_pc = "dropping" /\ thread_pc' # "dropping")
              => (thread_pc' = "exited" /\ thread_result' = "ok"
                      /\ ~ConsumerStep)]_vars
    /\ [][(ConsumerStep /\ StreamLive) => thread_pc' = thread_pc]_vars

\* a stream that delivered frames was dropped by its thread after a stop
C34_Witness ==
    /\ thread_pc = "exited"
    /\ thread_result = "ok"
    /\ frames_made > 0
    /\ stop_signal


\* caller c's toggle_recording returns the empty-API-key error in this step
RejectsForApiKey(c) == call_pc[c] = "starting" /\ call_pc'[c] = "err_api_key"

\* C35: a toggle_recording that took the starting branch and finds the API
\* key empty emits one recording-error event and nothing else, returns the
\* error, starts no capture thread and no session, and leaves is_recording,
\* the stop signal and the recording tasks as they were.
C35_EmptyKeyChangesNothing ==
    [][\A c \in Callers :
          RejectsForApiKey(c)
              => /\ app_log' = Append(app_log, AppEvent("recording-error", 0))
                 /\ is_recording' = is_recording
                 /\ stop_signal' = stop_signal
                 /\ n_spawned' = n_spawned
                 /\ sess_pc' = sess_pc
                 /\ sess_thread' = sess_thread]_vars

\* the first call found the API key empty: one recording-error, nothing
\* recording, nothing spawned
C35_Witness ==
    /\ \E c \in Callers : call_pc[c] = "err_api_key"
    /\ app_log = <<AppEvent("recording-error", 0)>>
    /\ ~is_recording
    /\ ~stop_signal
    /\ n_spawned = 0

====
